---- MODULE Spec2Model ----
(***************************************************************************)
(* Streaming / thinking state machine of the chat front-end.               *)
(*                                                                         *)
(*   ChatProvider          src/src/providers/ChatProvider.tsx              *)
(*   useStreamSSE (plain)  src/src/hooks/useStreamSSE.ts                   *)
(*   useStreamSSE (buffered) src/src/hooks/useThinkingState.ts             *)
(*   useTypingAnimation (animation frame) src/src/hooks/useTypingAnimation.ts *)
(*   useTypingAnimation (interval)        src/unnamed/part_000             *)
(*                                                                         *)
(* Strings of the program are sequences of one-character strings, so that  *)
(* split, trim, startsWith, slice and substring can be computed.           *)
(***************************************************************************)
EXTENDS Integers, Sequences, FiniteSets, TLC

VARIABLES
    thinking,        \* ChatProvider: useState<ChatThinkingState>
    streamingState,  \* ChatProvider: useState<StreamingState>
    hideTimeoutRef,  \* ChatProvider: "null", or the hide timer's handle: "pending" | "fired"
    events,          \* ChatProvider: useState<ChatEvents>, TRUE for a supplied callback
    onCancelCalls,   \* number of invocations of events.onCancel
    now,             \* Date.now()
    completionTimers,\* pending 600 ms timers set by the consumer's onComplete
    variant,         \* which useStreamSSE the engine is: "plain" | "buffered"
    responses,       \* the bodies the backend answers the successive requests with
    runs,            \* one record per startStream call: the async function's position
    sse,             \* useStreamSSE: isStreaming, error, done, abortControllerRef
    delivered,       \* the onChunk calls so far, in call order
    raf,             \* useTypingAnimation (requestAnimationFrame loop): state, refs, frame queue
    itv,             \* useTypingAnimation (setInterval loop): props, state, refs
    last             \* the operation that produced the current state, with its inputs

engVars == <<variant, responses, runs, sse, delivered>>

typingVars == <<raf, itv>>

provVars == <<thinking, streamingState, hideTimeoutRef, events, onCancelCalls, now,
              completionTimers>>

----------------------------------------------------------------------------
(* Bounds                                                                  *)

MaxContent == 3      \* longest StreamingState.content the model builds
MaxNow == 1          \* Date.now() ranges over 0..MaxNow
MaxCancels == 2      \* cancel() calls per behaviour
MaxFrames == 3       \* frames in one response body
SessionFrames == 1   \* frames in each response body of a two-turn session
TextLen == 3         \* length of the longest text a typing hook is given
MaxCalls == 3        \* calls of a typing hook's text setters per behaviour
MaxElapsed == 70     \* milliseconds since lastUpdateRef the model tells apart

----------------------------------------------------------------------------
(* Values                                                                  *)

Null == "null"               \* JavaScript null
Undefined == "undefined"     \* JavaScript undefined
NoTime == -1                 \* an unset optional timestamp (endedAt?: number)

ThoughtStepId == {"understand", "plan", "retrieve", "tool", "compose", "finalize"}

\* DEFAULT_STEPS.find(s => s.id === id)?.label || `Step: ${id}`
DefaultLabel(id) ==
    CASE id = "understand" -> "Understanding request"
      [] id = "plan" -> "Planning response"
      [] id = "retrieve" -> "Gathering information"
      [] id = "compose" -> "Composing answer"
      [] id = "finalize" -> "Finalizing"
      [] OTHER -> "Step: " \o id

\* the ids, labels and metadata the model calls the step operations with
StepIds == {"understand", "tool"}
TurnStepIds == {"compose"}     \* the step a turn has active while it streams
Labels == {Undefined, "Working"}
Notes == {Undefined, "timeout"}

MessageIds == {"m1", "m2"}
Deltas == {<<"a">>, <<"b", "c">>}
Errors == {Undefined, "boom"}

\* StreamChunk {id, delta, done?, error?}
StreamChunks ==
    [id : MessageIds, delta : Deltas, done : {Undefined, "true", "false"}, error : Errors]

\* truthiness of an optional string (label, error) and of an optional boolean (done)
Truthy(v) == v # Undefined /\ v # Null /\ v # "" /\ v # "false"

----------------------------------------------------------------------------
(* ChatProvider                                                            *)

InitialThinking ==
    [visible |-> FALSE, canCancel |-> FALSE, steps |-> <<>>, activeStep |-> Undefined]

InitialStreaming ==
    [messageId |-> Null, content |-> <<>>, isStreaming |-> FALSE, error |-> Null]

\* steps.findIndex(step => step.id === id); 0 when absent
FindIndex(steps, id) ==
    IF \E i \in 1..Len(steps) : steps[i].id = id
    THEN CHOOSE i \in 1..Len(steps) :
            steps[i].id = id /\ \A j \in 1..(i - 1) : steps[j].id # id
    ELSE 0

\* startStep that pushes a new entry whether or not the id is already listed
StartStepAlwaysPushes(prev, id, label, toolName, note, t) ==
    [prev EXCEPT !.steps = Append(@, [id |-> id,
                                      label |-> IF Truthy(label) THEN label ELSE DefaultLabel(id),
                                      status |-> "active", startedAt |-> t, endedAt |-> NoTime,
                                      toolName |-> toolName, note |-> note]),
                 !.activeStep = id]

StartStepState(prev, id, label, toolName, note, t) ==
    LET existingIndex == FindIndex(prev.steps, id)
        stepData == [id |-> id,
                     label |-> IF Truthy(label) THEN label ELSE DefaultLabel(id),
                     status |-> "active",
                     startedAt |-> t,
                     endedAt |-> NoTime,
                     toolName |-> toolName,
                     note |-> note]
        steps == IF existingIndex >= 1
                 THEN [prev.steps EXCEPT ![existingIndex] = stepData]
                 ELSE Append(prev.steps, stepData)
    IN [prev EXCEPT !.steps = steps, !.activeStep = id]

\* completeStep that clears activeStep whichever step it completes
CompleteStepClearsActive(prev, id, t) ==
    [prev EXCEPT
        !.steps = [i \in 1..Len(prev.steps) |->
                     IF prev.steps[i].id = id
                     THEN [prev.steps[i] EXCEPT !.status = "done", !.endedAt = t]
                     ELSE prev.steps[i]],
        !.activeStep = Undefined]

CompleteStepState(prev, id, t) ==
    [prev EXCEPT
        !.steps = [i \in 1..Len(prev.steps) |->
                     IF prev.steps[i].id = id
                     THEN [prev.steps[i] EXCEPT !.status = "done", !.endedAt = t]
                     ELSE prev.steps[i]],
        !.activeStep = IF prev.activeStep = id THEN Undefined ELSE prev.activeStep]

FailStepState(prev, id, note, t) ==
    [prev EXCEPT
        !.steps = [i \in 1..Len(prev.steps) |->
                     IF prev.steps[i].id = id
                     THEN [prev.steps[i] EXCEPT
                             !.status = "error", !.endedAt = t, !.note = note]
                     ELSE prev.steps[i]],
        !.activeStep = IF prev.activeStep = id THEN Undefined ELSE prev.activeStep]

\* streaming.start
StreamingStartState(messageId) ==
    [messageId |-> messageId, content |-> <<>>, isStreaming |-> TRUE, error |-> Null]

\* streaming.append with the mistake of assigning the delta instead of appending it
StreamingAppendOverwrites(prev, chunk) ==
    [prev EXCEPT
        !.content = chunk.delta,
        !.isStreaming = ~Truthy(chunk.done),
        !.error = IF Truthy(chunk.error) THEN chunk.error ELSE Null]

\* streaming.append: the functional update of setStreamingState
StreamingAppendState(prev, chunk) ==
    [prev EXCEPT
        !.content = prev.content \o chunk.delta,
        !.isStreaming = ~Truthy(chunk.done),
        !.error = IF Truthy(chunk.error) THEN chunk.error ELSE Null]

\* streaming.finish
StreamingFinishState(prev) == [prev EXCEPT !.isStreaming = FALSE]

\* streaming.error
StreamingErrorState(prev, err) == [prev EXCEPT !.isStreaming = FALSE, !.error = err]

startStep(id, label, toolName, note) ==
    /\ thinking' = StartStepState(thinking, id, label, toolName, note, now)
    /\ last' = [op |-> "startStep", id |-> id]
    /\ UNCHANGED <<streamingState, hideTimeoutRef, events, onCancelCalls, now, completionTimers, engVars, typingVars>>

completeStep(id) ==
    /\ thinking' = CompleteStepState(thinking, id, now)
    /\ last' = [op |-> "completeStep", id |-> id]
    /\ UNCHANGED <<streamingState, hideTimeoutRef, events, onCancelCalls, now, completionTimers, engVars, typingVars>>

failStep(id, note) ==
    /\ thinking' = FailStepState(thinking, id, note, now)
    /\ last' = [op |-> "failStep", id |-> id]
    /\ UNCHANGED <<streamingState, hideTimeoutRef, events, onCancelCalls, now, completionTimers, engVars, typingVars>>

\* setThinking({canCancel})
setCanCancel(b) ==
    /\ thinking' = [thinking EXCEPT !.canCancel = b]
    /\ last' = [op |-> "setThinking"]
    /\ UNCHANGED <<streamingState, hideTimeoutRef, events, onCancelCalls, now, completionTimers, engVars, typingVars>>

\* setVisible that leaves a pending hide timer running when called with true
setVisibleKeepsTimer(visible) ==
    /\ IF ~visible
       THEN /\ hideTimeoutRef' = "pending"
            /\ UNCHANGED thinking
       ELSE /\ UNCHANGED hideTimeoutRef
            /\ thinking' = [thinking EXCEPT !.visible = TRUE]
    /\ last' = [op |-> "setVisible", visible |-> visible,
                cleared |-> hideTimeoutRef = "pending"]
    /\ UNCHANGED <<streamingState, events, onCancelCalls, now, completionTimers, engVars, typingVars>>

\* setVisible(visible); last.cleared records that the call found a hide pending
setVisible(visible) ==
    /\ IF ~visible
       THEN /\ hideTimeoutRef' = "pending"
            /\ UNCHANGED thinking
       ELSE /\ hideTimeoutRef' = Null
            /\ thinking' = [thinking EXCEPT !.visible = TRUE]
    /\ last' = [op |-> "setVisible", visible |-> visible,
                cleared |-> hideTimeoutRef = "pending"]
    /\ UNCHANGED <<streamingState, events, onCancelCalls, now, completionTimers, engVars, typingVars>>

\* the setTimeout callback of setVisible(false), 600 ms later
hideTimeoutFires ==
    /\ hideTimeoutRef = "pending"
    /\ thinking' = [thinking EXCEPT !.visible = FALSE]
    /\ hideTimeoutRef' = "fired"   \* the ref keeps the handle of the fired timer
    /\ last' = [op |-> "hideTimeout"]
    /\ UNCHANGED <<streamingState, events, onCancelCalls, now, completionTimers, engVars, typingVars>>

\* cancel() with the mistake of leaving the step list in place
cancelKeepsSteps ==
    /\ onCancelCalls < MaxCancels
    /\ onCancelCalls' = IF events.onCancel THEN onCancelCalls + 1 ELSE onCancelCalls
    /\ thinking' = [InitialThinking EXCEPT !.steps = thinking.steps]
    /\ streamingState' = InitialStreaming
    /\ last' = [op |-> "cancel",
                midStream |-> streamingState.isStreaming /\ streamingState.content # <<>>,
                hadSteps |-> thinking.steps # <<>> /\ thinking.visible,
                calls |-> onCancelCalls, again |-> last.op = "cancel"]
    /\ UNCHANGED <<hideTimeoutRef, events, now, completionTimers, engVars, typingVars>>

cancel ==
    /\ onCancelCalls < MaxCancels
    /\ onCancelCalls' = IF events.onCancel THEN onCancelCalls + 1 ELSE onCancelCalls
    /\ thinking' = InitialThinking
    /\ streamingState' = InitialStreaming
    /\ last' = [op |-> "cancel",
                midStream |-> streamingState.isStreaming /\ streamingState.content # <<>>,
                hadSteps |-> thinking.steps # <<>> /\ thinking.visible,
                calls |-> onCancelCalls, again |-> last.op = "cancel"]
    /\ UNCHANGED <<hideTimeoutRef, events, now, completionTimers, engVars, typingVars>>

streamingStart(messageId) ==
    /\ streamingState' = StreamingStartState(messageId)
    /\ last' = [op |-> "start", id |-> messageId]
    /\ UNCHANGED <<thinking, hideTimeoutRef, events, onCancelCalls, now, completionTimers, engVars, typingVars>>

streamingAppend(chunk) ==
    /\ Len(streamingState.content) + Len(chunk.delta) <= MaxContent
    /\ streamingState' = StreamingAppendState(streamingState, chunk)
    /\ last' = [op |-> "append",
                matched |-> chunk.id = streamingState.messageId,
                tracked |-> streamingState.messageId # Null,
                delta |-> chunk.delta,
                error |-> Truthy(chunk.error),
                done |-> Truthy(chunk.done),
                prevLen |-> Len(streamingState.content)]
    /\ UNCHANGED <<thinking, hideTimeoutRef, events, onCancelCalls, now, completionTimers, engVars, typingVars>>

streamingFinish ==
    /\ streamingState' = StreamingFinishState(streamingState)
    /\ last' = [op |-> "finish"]
    /\ UNCHANGED <<thinking, hideTimeoutRef, events, onCancelCalls, now, completionTimers, engVars, typingVars>>

streamingError(err) ==
    /\ streamingState' = StreamingErrorState(streamingState, err)
    /\ last' = [op |-> "error"]
    /\ UNCHANGED <<thinking, hideTimeoutRef, events, onCancelCalls, now, completionTimers, engVars, typingVars>>

streamingReset ==
    /\ streamingState' = InitialStreaming
    /\ last' = [op |-> "reset"]
    /\ UNCHANGED <<thinking, hideTimeoutRef, events, onCancelCalls, now, completionTimers, engVars, typingVars>>

\* time passes between two handlers
clockTick ==
    /\ now < MaxNow
    /\ now' = now + 1
    /\ last' = [op |-> "tick"]
    /\ UNCHANGED <<thinking, streamingState, hideTimeoutRef, events, onCancelCalls,
                   completionTimers, engVars, typingVars>>

----------------------------------------------------------------------------
(* ThinkingBar: the headline status of its three variants                  *)

Fallback == "Thinking..."

\* steps.find(step => step.status === 'active')?.label || 'Thinking...'
StatusText(th) ==
    IF \E i \in 1..Len(th.steps) : th.steps[i].status = "active"
    THEN LET first == CHOOSE i \in 1..Len(th.steps) :
                         /\ th.steps[i].status = "active"
                         /\ \A j \in 1..(i - 1) : th.steps[j].status # "active"
         IN IF Truthy(th.steps[first].label) THEN th.steps[first].label ELSE Fallback
    ELSE Fallback

\* status || (activeStep && steps.find(s => s.id === activeStep)?.label) || "Thinking..."
CurrentStatus(th, status) ==
    IF Truthy(status) THEN status
    ELSE IF Truthy(th.activeStep) /\ FindIndex(th.steps, th.activeStep) >= 1
              /\ Truthy(th.steps[FindIndex(th.steps, th.activeStep)].label)
         THEN th.steps[FindIndex(th.steps, th.activeStep)].label
         ELSE Fallback

----------------------------------------------------------------------------
(* Wire format.  The response body is a sequence of units: the six         *)
(* characters of the "data: " prefix, the six characters of the [DONE]     *)
(* sentinel, the newline, and for a JSON payload the brace and one unit    *)
(* per member (a read boundary inside a member behaves like one at its     *)
(* edge: every proper part of an object text is rejected by JSON.parse).   *)

NL == "\n"
DataPrefix == <<"d", "a", "t", "a", ":", " ">>
DoneSentinel == <<"[", "D", "O", "N", "E", "]">>
Whitespace == {" ", "\t", "\r", NL}

RECURSIVE Flat(_)
\* a delta's characters as one string
Flat(chars) == IF chars = <<>> THEN "" ELSE Head(chars) \o Flat(Tail(chars))

\* JSON.stringify of a StreamChunk, as units
ObjText(c) ==
    <<"{", "\"id\":\"" \o c.id \o "\"", ",\"delta\":\"" \o Flat(c.delta) \o "\"">>
    \o (IF c.done = Undefined THEN <<>> ELSE <<",\"done\":" \o c.done>>)
    \o (IF c.error = Undefined THEN <<>> ELSE <<",\"error\":\"" \o c.error \o "\"">>)
    \o <<"}">>

\* the chunks that travel on the wire
WireChunks ==
    [id : MessageIds, delta : {<<"a">>, <<"b">>, <<"c">>, <<"d">>, <<"e">>},
     done : {Undefined, "true"}, error : Errors]

\* the JSON text of every chunk
WireText == [c \in WireChunks |-> ObjText(c)]

\* JSON.parse(text) as StreamChunk; ok is FALSE where JSON.parse throws
ParseJSON(text) ==
    IF text # <<>> /\ text[1] = "{" /\ \E c \in WireChunks : WireText[c] = text
    THEN [ok |-> TRUE, chunk |-> CHOOSE c \in WireChunks : WireText[c] = text]
    ELSE [ok |-> FALSE]

\* the frames a backend sends, for message id m
FrameKinds == {"chunkA", "chunkB", "rawC", "doneD", "errE", "DONE", "rawDONE", "bad"}

Chunk(m, delta, done, error) == [id |-> m, delta |-> delta, done |-> done, error |-> error]

\* the chunk a frame of a chunk kind carries
FrameChunk(kind, m) ==
    CASE kind = "chunkA" -> Chunk(m, <<"a">>, Undefined, Undefined)
      [] kind = "chunkB" -> Chunk(m, <<"b">>, Undefined, Undefined)
      [] kind = "rawC" -> Chunk(m, <<"c">>, Undefined, Undefined)
      [] kind = "doneD" -> Chunk(m, <<"d">>, "true", Undefined)
      [] kind = "errE" -> Chunk(m, <<"e">>, Undefined, "boom")

ChunkKinds == {"chunkA", "chunkB", "rawC", "doneD", "errE"}

\* one line of the body, without its newline
FrameText(kind, m) ==
    CASE kind = "rawC" -> ObjText(FrameChunk(kind, m))
      [] kind \in ChunkKinds \ {"rawC"} -> DataPrefix \o ObjText(FrameChunk(kind, m))
      [] kind = "DONE" -> DataPrefix \o DoneSentinel
      [] kind = "rawDONE" -> DoneSentinel
      [] kind = "bad" -> DataPrefix \o <<"{", "oops">>

RECURSIVE BodyText(_, _, _)
\* the frames joined by newlines; the last one is newline-terminated iff finalNL
BodyText(frames, m, finalNL) ==
    IF frames = <<>> THEN <<>>
    ELSE FrameText(Head(frames), m)
         \o (IF Len(frames) > 1 \/ finalNL THEN <<NL>> ELSE <<>>)
         \o BodyText(Tail(frames), m, finalNL)

----------------------------------------------------------------------------
(* String primitives                                                       *)

RECURSIVE IndexOfNL(_, _)
\* text.indexOf('\n', from), 1-based; 0 when there is none
IndexOfNL(text, from) ==
    IF from > Len(text) THEN 0
    ELSE IF text[from] = NL THEN from
    ELSE IndexOfNL(text, from + 1)

RECURSIVE Split(_)
\* text.split('\n')
Split(text) ==
    LET i == IndexOfNL(text, 1)
    IN IF i = 0 THEN <<text>>
       ELSE <<SubSeq(text, 1, i - 1)>> \o Split(SubSeq(text, i + 1, Len(text)))

RECURSIVE TrimStart(_)
TrimStart(line) ==
    IF line # <<>> /\ Head(line) \in Whitespace THEN TrimStart(Tail(line)) ELSE line

RECURSIVE TrimEnd(_)
TrimEnd(line) ==
    IF line # <<>> /\ line[Len(line)] \in Whitespace
    THEN TrimEnd(SubSeq(line, 1, Len(line) - 1))
    ELSE line

\* line.trim()
Trim(line) == TrimEnd(TrimStart(line))

\* line.startsWith(prefix)
StartsWith(line, prefix) ==
    Len(line) >= Len(prefix) /\ SubSeq(line, 1, Len(prefix)) = prefix

\* line.slice(n)
Slice(line, n) == SubSeq(line, n + 1, Len(line))

\* lines.filter(line => line.trim())
NonBlank(lines) == SelectSeq(lines, LAMBDA line : Trim(line) # <<>>)

----------------------------------------------------------------------------
(* The consumer's callbacks (ChatDemoInner): what one stream's handlers     *)
(* have done so far is carried in an effect record                          *)
(*   [sse, st, th, timers, out, completed, errored, returned]               *)

\* onChunk: (chunk) => appendChunk(chunk)
OnChunk(e, r, chunk) ==
    [e EXCEPT !.out = Append(e.out, [run |-> r, chunk |-> chunk]),
              !.st = StreamingAppendState(e.st, chunk)]

\* onComplete: finishStreaming(); completeStep('finalize'); setTimeout(..., 600)
OnComplete(e, t) ==
    [e EXCEPT !.completed = e.completed + 1,
              !.st = StreamingFinishState(e.st),
              !.th = CompleteStepState(e.th, "finalize", t),
              !.timers = e.timers + 1]

\* onError
OnError(e) == [e EXCEPT !.errored = e.errored + 1]

----------------------------------------------------------------------------
(* useStreamSSE, plain variant (src/src/hooks/useStreamSSE.ts)             *)

\* appendChunk
PlainAppendChunk(e, r, chunk, t) ==
    LET e1 == OnChunk(e, r, chunk)
        e2 == IF Truthy(chunk.done)
              THEN OnComplete([e1 EXCEPT !.sse.done = TRUE, !.sse.isStreaming = FALSE], t)
              ELSE e1
    IN IF Truthy(chunk.error)
       THEN OnError([e2 EXCEPT !.sse.error = chunk.error, !.sse.isStreaming = FALSE])
       ELSE e2

\* the body of `for (const line of lines)`
PlainLine(e, r, line, t) ==
    IF e.returned \/ ~StartsWith(line, DataPrefix) THEN e
    ELSE LET jsonData == Slice(line, 6)
             parsed == ParseJSON(jsonData)
         IN IF jsonData = DoneSentinel
            THEN [OnComplete([e EXCEPT !.sse.done = TRUE, !.sse.isStreaming = FALSE], t)
                    EXCEPT !.returned = TRUE]
            ELSE IF parsed.ok THEN PlainAppendChunk(e, r, parsed.chunk, t)
                 ELSE e   \* console.warn

RECURSIVE PlainLines(_, _, _, _)
PlainLines(e, r, lines, t) ==
    IF lines = <<>> THEN e
    ELSE PlainLines(PlainLine(e, r, Head(lines), t), r, Tail(lines), t)

\* one iteration of the read loop on a decoded network read
PlainRead(e, r, text, t) == PlainLines(e, r, NonBlank(Split(text)), t)

----------------------------------------------------------------------------
(* useStreamSSE, buffered variant (src/src/hooks/useThinkingState.ts)      *)

\* the body of `for (const line of lines)`
BufferedLine(e, r, line) ==
    LET trimmedLine == Trim(line)
        jsonData == IF StartsWith(trimmedLine, DataPrefix)
                    THEN Slice(trimmedLine, 6) ELSE trimmedLine
        parsed == ParseJSON(jsonData)
    IN IF trimmedLine = <<>> THEN e
       ELSE IF jsonData = DoneSentinel \/ jsonData = DataPrefix \o DoneSentinel THEN e
       ELSE IF parsed.ok THEN OnChunk(e, r, parsed.chunk)
       ELSE e   \* console.warn

RECURSIVE BufferedLines(_, _, _)
BufferedLines(e, r, lines) ==
    IF lines = <<>> THEN e
    ELSE BufferedLines(BufferedLine(e, r, Head(lines)), r, Tail(lines))

\* buffer += decoded; lines = buffer.split('\n'); buffer = lines.pop() || ''
BufferedPending(buffer, text) ==
    LET lines == Split(buffer \o text) IN lines[Len(lines)]

BufferedComplete(buffer, text) ==
    LET lines == Split(buffer \o text) IN SubSeq(lines, 1, Len(lines) - 1)

\* one iteration of the read loop on a decoded network read
BufferedRead(e, r, buffer, text) == BufferedLines(e, r, BufferedComplete(buffer, text))

----------------------------------------------------------------------------
(* The engine's steps                                                      *)

Effects == [sse |-> sse, st |-> streamingState, th |-> thinking,
            timers |-> completionTimers, out |-> delivered,
            completed |-> 0, errored |-> 0, returned |-> FALSE]

\* the state after one continuation of run r with effects e, ending at pc
Commit(e, r, pc, rest, buffer, fetched, partial) ==
    /\ sse' = e.sse
    /\ streamingState' = e.st
    /\ thinking' = e.th
    /\ completionTimers' = e.timers
    /\ delivered' = e.out
    /\ runs' = [runs EXCEPT ![r] = [@ EXCEPT !.pc = pc, !.rest = rest, !.buffer = buffer,
                                              !.completed = @ + e.completed,
                                              !.errored = @ + e.errored,
                                              !.fetched = fetched,
                                              !.partial = @ \/ partial,
                                              !.late = IF runs[r].aborted
                                                       THEN @ + Len(e.out) - Len(delivered)
                                                              + e.completed + e.errored
                                                       ELSE @]]

\* AbortController.abort() on the controller the ref holds
Aborted(rs, ref) == IF ref = 0 THEN rs ELSE [rs EXCEPT ![ref].aborted = TRUE]

\* the async function at `await fetch`; rest is the part of the body not yet read
NewRun(m, response) ==
    [messageId |-> m, pc |-> "fetch",
     rest |-> BodyText(response.frames, m, response.finalNL), buffer |-> <<>>,
     aborted |-> FALSE, completed |-> 0, errored |-> 0,
     fetched |-> "pending",   \* how `await fetch` settled
     partial |-> FALSE,       \* TRUE once a read has ended inside a line
     late |-> 0]              \* callbacks invoked after a cancel had returned

\* startStep('compose'); startStreaming(messageId); startStream()
startStream(m) ==
    /\ Len(runs) < Len(responses)
    /\ LET r == Len(runs) + 1 IN
        /\ runs' = IF variant = "plain"
                   THEN Append(runs, NewRun(m, responses[r]))
                   ELSE Append(Aborted(runs, sse.abortControllerRef), NewRun(m, responses[r]))
        /\ sse' = [sse EXCEPT !.isStreaming = TRUE, !.error = Null, !.done = FALSE,
                              !.abortControllerRef = r]
        /\ last' = [op |-> "startStream", run |-> r]
    /\ thinking' = StartStepState(thinking, "compose", "Composing answer...",
                                  Undefined, Undefined, now)
    /\ streamingState' = StreamingStartState(m)
    /\ UNCHANGED <<hideTimeoutRef, events, onCancelCalls, now, completionTimers,
                   variant, responses, delivered, typingVars>>

ThrownUnreported(e, message) ==
    IF variant = "plain"
    THEN [e EXCEPT !.sse.error = message, !.sse.isStreaming = FALSE]
    ELSE [e EXCEPT !.sse.error = message, !.sse.isStreaming = FALSE,
                   !.sse.abortControllerRef = 0]

\* the catch block (and, buffered, the finally block) for a thrown error
Thrown(e, message) ==
    IF variant = "plain"
    THEN OnError([e EXCEPT !.sse.error = message, !.sse.isStreaming = FALSE])
    ELSE [OnError([e EXCEPT !.sse.error = message])
            EXCEPT !.sse.isStreaming = FALSE, !.sse.abortControllerRef = 0]

\* `await fetch(...)` settles: a readable 2xx response, a non-2xx status, or no body
fetchSettles(r, outcome) ==
    /\ runs[r].pc = "fetch" /\ ~runs[r].aborted
    /\ IF outcome = "ok"
       THEN Commit(Effects, r, "read", runs[r].rest, <<>>, outcome, FALSE)
       ELSE Commit(Thrown(Effects, outcome), r, "ended", runs[r].rest, <<>>, outcome, FALSE)
    /\ last' = [op |-> "fetch", run |-> r]
    /\ UNCHANGED <<hideTimeoutRef, events, onCancelCalls, now, variant, responses, typingVars>>

\* `await reader.read()` yields the next k units of the body
readChunk(r, k) ==
    /\ runs[r].pc = "read" /\ ~runs[r].aborted
    /\ k <= Len(runs[r].rest)
    /\ LET text == SubSeq(runs[r].rest, 1, k)
           rest == SubSeq(runs[r].rest, k + 1, Len(runs[r].rest))
       IN IF variant = "plain"
          THEN LET e == PlainRead(Effects, r, text, now) IN
                 Commit(e, r, IF e.returned THEN "ended" ELSE "read", rest, <<>>,
                        "ok", rest # <<>> /\ text[k] # NL)
          ELSE Commit(BufferedRead(Effects, r, runs[r].buffer, text), r, "read",
                      rest, BufferedPending(runs[r].buffer, text),
                      "ok", rest # <<>> /\ text[k] # NL)
    /\ last' = [op |-> "read", run |-> r]
    /\ UNCHANGED <<hideTimeoutRef, events, onCancelCalls, now, variant, responses, typingVars>>

\* the callbacks e2 has invoked beyond those of e1
Invoked(e1, e2) ==
    (Len(e2.out) - Len(e1.out)) + (e2.completed - e1.completed) + (e2.errored - e1.errored)

\* a network read whose first line delivers a chunk, with an onChunk handler
\* that calls cancel (plain) / stopStream (buffered) on that chunk: the `for`
\* loop goes on with the remaining lines of the read
readChunkHandlerCancels(r, k) ==
    /\ runs[r].pc = "read" /\ ~runs[r].aborted
    /\ sse.abortControllerRef = r
    /\ k <= Len(runs[r].rest)
    /\ LET text == SubSeq(runs[r].rest, 1, k)
           rest == SubSeq(runs[r].rest, k + 1, Len(runs[r].rest))
           lines == IF variant = "plain" THEN NonBlank(Split(text))
                    ELSE BufferedComplete(runs[r].buffer, text)
           e1 == IF variant = "plain" THEN PlainLine(Effects, r, Head(lines), now)
                 ELSE BufferedLine(Effects, r, Head(lines))
           cancelled == [e1 EXCEPT !.sse.abortControllerRef = 0, !.sse.isStreaming = FALSE]
           e2 == IF variant = "plain" THEN PlainLines(cancelled, r, Tail(lines), now)
                 ELSE BufferedLines(cancelled, r, Tail(lines))
       IN /\ lines # <<>>
          /\ Len(e1.out) > Len(delivered) /\ e1.completed = 0 /\ e1.errored = 0
          /\ sse' = e2.sse
          /\ streamingState' = e2.st
          /\ thinking' = e2.th
          /\ completionTimers' = e2.timers
          /\ delivered' = e2.out
          /\ runs' = [runs EXCEPT ![r] =
                        [@ EXCEPT !.pc = IF e2.returned THEN "ended" ELSE "read",
                                  !.rest = rest,
                                  !.buffer = IF variant = "plain" THEN <<>>
                                             ELSE BufferedPending(runs[r].buffer, text),
                                  !.aborted = TRUE,
                                  !.completed = @ + e2.completed,
                                  !.errored = @ + e2.errored,
                                  !.partial = @ \/ (rest # <<>> /\ text[k] # NL),
                                  !.late = Invoked(e1, e2)]]
    /\ last' = [op |-> "readHandlerCancels", run |-> r]
    /\ UNCHANGED <<hideTimeoutRef, events, onCancelCalls, now, variant, responses, typingVars>>

\* `await reader.read()` yields done: the body has ended
readDone(r) ==
    /\ runs[r].pc = "read" /\ ~runs[r].aborted
    /\ runs[r].rest = <<>>
    /\ IF variant = "plain"
       THEN Commit(Effects, r, "ended", <<>>, <<>>, "ok", FALSE)
       ELSE Commit([OnComplete(Effects, now)
                      EXCEPT !.sse.isStreaming = FALSE, !.sse.abortControllerRef = 0],
                   r, "ended", <<>>, runs[r].buffer, "ok", FALSE)
    /\ last' = [op |-> "readDone", run |-> r]
    /\ UNCHANGED <<hideTimeoutRef, events, onCancelCalls, now, variant, responses, typingVars>>

abortObservedAsError(r) ==
    /\ runs[r].pc \in {"fetch", "read"} /\ runs[r].aborted
    /\ Commit(Thrown(Effects, "AbortError"), r, "ended", runs[r].rest, runs[r].buffer,
              runs[r].fetched, FALSE)
    /\ last' = [op |-> "abortObserved", run |-> r]
    /\ UNCHANGED <<hideTimeoutRef, events, onCancelCalls, now, variant, responses, typingVars>>

\* the pending await rejects with AbortError
abortObserved(r) ==
    /\ runs[r].pc \in {"fetch", "read"} /\ runs[r].aborted
    /\ IF variant = "plain"
       THEN Commit(Effects, r, "ended", runs[r].rest, runs[r].buffer,
                   runs[r].fetched, FALSE)
       ELSE Commit([Effects EXCEPT !.sse.isStreaming = FALSE, !.sse.abortControllerRef = 0],
                   r, "ended", runs[r].rest, runs[r].buffer, runs[r].fetched, FALSE)
    /\ last' = [op |-> "abortObserved", run |-> r]
    /\ UNCHANGED <<hideTimeoutRef, events, onCancelCalls, now, variant, responses, typingVars>>

\* what a cancel of the engine leaves in `last`: whether it directly follows
\* another cancel, the handle the first cancel of the series found, and whether
\* the series follows two provider cancels in succession
StopRecord ==
    IF last.op = "stopStream"
    THEN [last EXCEPT !.again = TRUE]
    ELSE [op |-> "stopStream", again |-> FALSE, was |-> sse.abortControllerRef,
          afterCancels |-> last.op = "cancel" /\ last.again]

stopStreamFlips ==
    /\ runs' = Aborted(runs, sse.abortControllerRef)
    /\ sse' = [sse EXCEPT !.abortControllerRef = 0,
                          !.isStreaming = (sse.abortControllerRef = 0)]
    /\ last' = StopRecord
    /\ UNCHANGED <<provVars, variant, responses, delivered, typingVars>>

\* cancel (plain) / stopStream (buffered)
stopStream ==
    /\ runs' = Aborted(runs, sse.abortControllerRef)
    /\ sse' = [sse EXCEPT !.abortControllerRef = 0, !.isStreaming = FALSE]
    /\ last' = StopRecord
    /\ UNCHANGED <<provVars, variant, responses, delivered, typingVars>>

\* the consumer's 600 ms timer: setThinkingVisible(false); resetThinking()
completionTimerFires ==
    /\ completionTimers > 0
    /\ completionTimers' = completionTimers - 1
    /\ hideTimeoutRef' = "pending"
    /\ thinking' = InitialThinking
    /\ last' = [op |-> "completionTimer"]
    /\ UNCHANGED <<streamingState, events, onCancelCalls, now, engVars, typingVars>>

----------------------------------------------------------------------------
(* useTypingAnimation, requestAnimationFrame loop                          *)

Speed == 30                 \* characters per second
FrameBudget == 1667         \* 16.67 ms, in hundredths of a millisecond
FrameGaps == {10, 20, 70}   \* milliseconds from one animation frame to the next

Min(a, b) == IF a < b THEN a ELSE b
Max(a, b) == IF a > b THEN a ELSE b

FullText == [i \in 1..TextLen |-> <<"a", "b", "c", "d", "e", "f">>[i]]

\* the texts the hooks are given: the response so far
Texts == {SubSeq(FullText, 1, n) : n \in 0..TextLen}

\* text.substring(0, n)
Substring(text, n) == SubSeq(text, 1, Min(n, Len(text)))

\* the ticks within which a reveal of text is due to have converged: one per
\* character, one for the frame that starts it and one for the frame that ends it
RevealTicks(text) == Len(text) + 2

Tick(n) == Min(n + 1, TextLen + 2)

\* the animate callback of the render with the given targetText and displayText
Closure(target, display) == [targetText |-> target, displayText |-> display]

\* requestAnimationFrame(c). A callback that reschedules itself on every path
\* (displayText # targetText in its closure) is kept once: a second copy of it
\* reads the same clock after the first and never updates anything.
\* handle says what animationRef.current refers to: "last" is the request at
\* the end of pending, "dup" a second copy that pending does not hold, "none"
\* a request that has already run, "unknown" one of several after a frame in
\* which copies ran.
Schedule(s, c) ==
    IF c.displayText # c.targetText /\ \E i \in 1..Len(s.pending) : s.pending[i] = c
    THEN [s EXCEPT !.animationRef = c, !.handle = "dup", !.dups = TRUE]
    ELSE [s EXCEPT !.animationRef = c, !.handle = "last", !.pending = Append(@, c)]

\* one call of animate; s.elapsed is performance.now() - lastUpdateRef.current
Animate(s, c) ==
    IF s.elapsed * 100 < FrameBudget
    THEN Schedule(s, c)
    ELSE LET current == s.displayText
             charactersToAdd == Max(1, (Speed * s.elapsed) \div 1000)
             nextLength == Min(Len(current) + charactersToAdd, Len(c.targetText))
             nextText == IF current = c.targetText \/ s.prefersReducedMotion
                         THEN c.targetText
                         ELSE Substring(c.targetText, nextLength)
             updated == [s EXCEPT !.elapsed = 0,
                                  !.displayText = nextText,
                                  !.isTyping = IF nextText = c.targetText THEN FALSE ELSE @,
                                  !.ticks = Tick(@)]
         IN IF c.displayText # c.targetText THEN Schedule(updated, c) ELSE updated

RECURSIVE RunCallbacks(_, _)
\* the callbacks of one animation frame, in the order they were requested
RunCallbacks(s, callbacks) ==
    IF callbacks = <<>> THEN s
    ELSE RunCallbacks(Animate(s, Head(callbacks)), Tail(callbacks))

\* the start effect of the render that follows a state change
StartEffect(s) ==
    IF s.targetText # s.displayText /\ ~s.isTyping
    THEN Schedule([s EXCEPT !.isTyping = TRUE, !.elapsed = 0],
                  Closure(s.targetText, s.displayText))
    ELSE s

RafIdle ==
    [displayText |-> <<>>, targetText |-> <<>>, isTyping |-> FALSE,
     prefersReducedMotion |-> FALSE, elapsed |-> 0, pending |-> <<>>,
     animationRef |-> Closure(<<>>, <<>>), handle |-> "none", dups |-> FALSE,
     cleared |-> FALSE, ticks |-> 0, calls |-> 0]

\* setTargetText(text), called from the current render
setTargetText(text) ==
    /\ raf.calls < MaxCalls
    /\ LET set == [raf EXCEPT !.targetText = text, !.cleared = FALSE, !.ticks = 0,
                              !.calls = @ + 1]
           handled == IF text # raf.displayText
                      THEN Schedule([set EXCEPT !.isTyping = TRUE, !.elapsed = 0],
                                    Closure(raf.targetText, raf.displayText))
                      ELSE set
       IN raf' = StartEffect(handled)
    /\ last' = [op |-> "setTargetText", extends |-> Len(text) > Len(raf.targetText),
                midReveal |-> raf.displayText # raf.targetText]
    /\ UNCHANGED <<provVars, engVars, itv>>

\* appendText(text)
appendText(text) ==
    /\ raf.calls < MaxCalls
    /\ text # <<>>
    /\ raf.targetText \o text \in Texts
    /\ raf' = StartEffect([raf EXCEPT !.targetText = @ \o text, !.cleared = FALSE,
                                      !.ticks = 0, !.calls = @ + 1])
    /\ last' = [op |-> "appendText", extends |-> TRUE,
                midReveal |-> raf.displayText # raf.targetText]
    /\ UNCHANGED <<provVars, engVars, itv>>

\* the browser runs the animation frame callbacks requested since the last frame
animationFrame(gap) ==
    /\ raf.pending # <<>>
    /\ LET ran == RunCallbacks([raf EXCEPT !.elapsed = Min(@ + gap, MaxElapsed),
                                            !.pending = <<>>, !.handle = "none"],
                                raf.pending)
       IN raf' = StartEffect([ran EXCEPT !.handle = IF raf.dups THEN "unknown" ELSE @])
    /\ last' = [op |-> "animationFrame"]
    /\ UNCHANGED <<provVars, engVars, itv>>

\* reset(): cancelAnimationFrame(animationRef.current), then the three setters;
\* cleared records that no target has been set since
reset ==
    /\ raf.calls < MaxCalls
    /\ raf.handle # "unknown"
    /\ raf' = StartEffect([raf EXCEPT !.pending = IF raf.handle = "last"
                                                 THEN SubSeq(@, 1, Len(@) - 1) ELSE @,
                                      !.handle = "none",
                                      !.displayText = <<>>, !.targetText = <<>>,
                                      !.isTyping = FALSE, !.cleared = TRUE,
                                      !.ticks = 0, !.calls = @ + 1])
    /\ last' = [op |-> "reset"]
    /\ UNCHANGED <<provVars, engVars, itv>>

----------------------------------------------------------------------------
(* useTypingAnimation, setInterval loop                                    *)

IntervalSpeed == 2          \* characters per interval tick

\* reset()
ItvReset(s) ==
    [s EXCEPT !.displayText = <<>>, !.isTyping = FALSE, !.currentIndexRef = 0,
              !.intervalRef = FALSE]

\* onComplete?.(); completes counts the calls since the text prop last changed
ItvComplete(s) == [s EXCEPT !.completes = Min(@ + 1, TextLen + 2)]

\* the effect for the props of s, after the cleanup of the effect before it
ItvEffect(s) ==
    LET cleaned == [s EXCEPT !.intervalRef = FALSE] IN
    IF s.prefersReducedMotion
    THEN ItvComplete([cleaned EXCEPT !.displayText = s.text, !.isTyping = FALSE])
    ELSE IF s.text = <<>>
         THEN ItvReset(cleaned)
         ELSE [ItvReset(cleaned) EXCEPT !.isTyping = TRUE, !.intervalRef = TRUE]

\* the hook after the effects of its first render with the given text:
\* useReducedMotion's state is still false, its effect has read the media
\* query (matches) and the render with that value is yet to come
ItvMounted(text, matches) ==
    ItvEffect([text |-> text, displayText |-> <<>>, isTyping |-> FALSE,
               prefersReducedMotion |-> FALSE, mediaMatches |-> matches,
               currentIndexRef |-> 0, intervalRef |-> FALSE, completes |-> 0,
               cleared |-> FALSE, ticks |-> 0, calls |-> 0])

\* no setPrefersReducedMotion is waiting to be rendered
ItvSettled == itv.prefersReducedMotion = itv.mediaMatches

\* the render after setPrefersReducedMotion(mediaQuery.matches), and its effect
reducedMotionRender ==
    /\ ~ItvSettled
    /\ itv' = ItvEffect([itv EXCEPT !.prefersReducedMotion = itv.mediaMatches,
                                    !.ticks = 0])
    /\ last' = [op |-> "reducedMotionRender"]
    /\ UNCHANGED <<provVars, engVars, raf>>

\* the media query's change event: handleChange, then the render and its effect
handleChange ==
    /\ ItvSettled
    /\ itv.calls < MaxCalls
    /\ itv' = ItvEffect([itv EXCEPT !.mediaMatches = ~@, !.prefersReducedMotion = ~@,
                                    !.cleared = FALSE, !.ticks = 0, !.calls = @ + 1])
    /\ last' = [op |-> "handleChange"]
    /\ UNCHANGED <<provVars, engVars, raf>>

\* reset(), called by the component; cleared records that neither the text,
\* the motion preference nor skipToEnd has followed it
itvReset ==
    /\ ItvSettled
    /\ itv.calls < MaxCalls
    /\ itv' = [ItvReset(itv) EXCEPT !.cleared = TRUE, !.ticks = 0, !.calls = @ + 1]
    /\ last' = [op |-> "itvReset"]
    /\ UNCHANGED <<provVars, engVars, raf>>

\* the parent renders the hook with another text
itvSetText(text) ==
    /\ ItvSettled
    /\ itv.calls < MaxCalls
    /\ text # itv.text
    /\ itv' = ItvEffect([itv EXCEPT !.text = text, !.completes = 0, !.cleared = FALSE,
                                    !.ticks = 0, !.calls = @ + 1])
    /\ last' = [op |-> "itvSetText", extends |-> Len(text) > Len(itv.text),
                midReveal |-> itv.displayText # itv.text]
    /\ UNCHANGED <<provVars, engVars, raf>>

\* the setInterval callback
intervalTick ==
    /\ ItvSettled
    /\ itv.intervalRef
    /\ LET currentIndex == itv.currentIndexRef
           endIndex == Min(currentIndex + IntervalSpeed, Len(itv.text))
       IN itv' = IF currentIndex >= Len(itv.text)
                 THEN ItvComplete([itv EXCEPT !.isTyping = FALSE, !.intervalRef = FALSE,
                                              !.ticks = Tick(@)])
                 ELSE [itv EXCEPT !.displayText = SubSeq(itv.text, 1, endIndex),
                                  !.currentIndexRef = endIndex, !.ticks = Tick(@)]
    /\ last' = [op |-> "intervalTick"]
    /\ UNCHANGED <<provVars, engVars, raf>>

\* skipToEnd()
skipToEnd ==
    /\ ItvSettled
    /\ itv' = ItvComplete([itv EXCEPT !.displayText = itv.text, !.isTyping = FALSE,
                                      !.cleared = FALSE,
                                      !.currentIndexRef = Len(itv.text),
                                      !.intervalRef = FALSE])
    /\ last' = [op |-> "skipToEnd"]
    /\ UNCHANGED <<provVars, engVars, raf>>

\* neither hook is mounted with a text
TypingIdle ==
    /\ raf = RafIdle
    /\ itv = ItvMounted(<<>>, FALSE)

----------------------------------------------------------------------------
(* Specifications                                                          *)

ProviderInit(onCancelGiven) ==
    /\ thinking = InitialThinking
    /\ streamingState = InitialStreaming
    /\ hideTimeoutRef = Null
    /\ events \in [onCancel : onCancelGiven]
    /\ onCancelCalls = 0
    /\ now = 0
    /\ completionTimers = 0
    /\ last = [op |-> "init"]

vars == <<thinking, streamingState, hideTimeoutRef, events, onCancelCalls, now,
          completionTimers, variant, responses, runs, sse, delivered, raf, itv, last>>

EngineIdle ==
    /\ variant = "plain"
    /\ responses = <<>>
    /\ runs = <<>>
    /\ sse = [isStreaming |-> FALSE, error |-> Null, done |-> FALSE, abortControllerRef |-> 0]
    /\ delivered = <<>>

Init == ProviderInit(BOOLEAN) /\ EngineIdle /\ TypingIdle

Next ==
    \/ \E id \in TurnStepIds : startStep(id, Undefined, Undefined, Undefined)
    \/ \E id \in TurnStepIds : completeStep(id)
    \/ \E b \in BOOLEAN : setCanCancel(b)
    \/ \E v \in BOOLEAN : setVisible(v)
    \/ hideTimeoutFires
    \/ cancel
    \/ \E m \in MessageIds : streamingStart(m)
    \/ \E c \in StreamChunks : streamingAppend(c)
    \/ streamingFinish
    \/ \E e \in Errors \ {Undefined} : streamingError(e)
    \/ streamingReset

Spec == Init /\ [][Next]_vars

\* the step operations and the bar's visibility, with two step ids and a
\* running clock
ThinkingNext ==
    \/ \E id \in StepIds, label \in Labels : startStep(id, label, Undefined, Undefined)
    \/ \E id \in StepIds : completeStep(id)
    \/ \E id \in StepIds, note \in Notes : failStep(id, note)
    \/ \E v \in BOOLEAN : setVisible(v)
    \/ hideTimeoutFires
    \/ clockTick

InitThinking == ProviderInit({TRUE}) /\ EngineIdle /\ TypingIdle

SpecThinking == InitThinking /\ [][ThinkingNext]_vars

\* the bodies of at most n frames of the given kinds
Bodies(kinds, n) ==
    {[frames |-> f, finalNL |-> b] : f \in UNION {[1..k -> kinds] : k \in 1..n}, b \in BOOLEAN}

\* the id of the next turn's message (`assistant-${Date.now()}`)
NextMessageId == IF runs = <<>> THEN "m1" ELSE "m2"

EngineInit ==
    /\ variant \in {"plain", "buffered"}
    /\ runs = <<>>
    /\ sse = [isStreaming |-> FALSE, error |-> Null, done |-> FALSE, abortControllerRef |-> 0]
    /\ delivered = <<>>

\* one stream per engine; the body is any sequence of at most MaxFrames chunk
\* and sentinel frames
InitSSE ==
    /\ ProviderInit({TRUE})
    /\ EngineInit
    /\ TypingIdle
    /\ responses \in {<<b>> : b \in Bodies({"chunkA", "chunkB", "rawC", "doneD", "DONE"}, MaxFrames)}

EngineNext ==
    \/ startStream(NextMessageId)
    \/ \E r \in 1..Len(runs), outcome \in {"ok", "HTTP error", "Failed to get response reader"} :
            fetchSettles(r, outcome)
    \/ \E r \in 1..Len(runs) : \E k \in 1..Len(runs[r].rest) : readChunk(r, k)
    \/ \E r \in 1..Len(runs) : readDone(r)
    \/ \E r \in 1..Len(runs) : abortObserved(r)
    \/ stopStream
    \/ completionTimerFires

SpecSSE == InitSSE /\ [][EngineNext]_vars

\* the length of the first line of text, its newline included
LineEnd(text) == IF IndexOfNL(text, 1) = 0 THEN Len(text) ELSE IndexOfNL(text, 1)

\* a session of two turns on one engine and one provider: the network hands over
\* one line per read, and the user may cancel at any moment
InitSession ==
    /\ ProviderInit({TRUE})
    /\ EngineInit
    /\ TypingIdle
    /\ responses \in {<<a, b>> : a, b \in {x \in Bodies({"chunkA", "DONE"}, SessionFrames) :
                                              x.finalNL}}

SessionNext ==
    \/ startStream(NextMessageId)
    \/ \E r \in 1..Len(runs), outcome \in {"ok", "HTTP error", "Failed to get response reader"} :
            fetchSettles(r, outcome)
    \/ \E r \in 1..Len(runs) : runs[r].rest # <<>> /\ readChunk(r, LineEnd(runs[r].rest))
    \/ \E r \in 1..Len(runs) : readDone(r)
    \/ \E r \in 1..Len(runs) : abortObserved(r)
    \/ stopStream
    \/ cancel
    \/ completionTimerFires

SpecSession == InitSession /\ [][SessionNext]_vars

\* one stream per engine, never cancelled; the body mixes chunk frames with
\* malformed frames and with prefixed and raw sentinels, and is read in any pieces
InitFrames ==
    /\ ProviderInit({TRUE})
    /\ EngineInit
    /\ TypingIdle
    /\ responses \in {<<b>> : b \in Bodies({"chunkA", "chunkB", "bad", "DONE", "rawDONE"},
                                            MaxFrames)}

FramesNext ==
    \/ startStream(NextMessageId)
    \/ \E r \in 1..Len(runs) : fetchSettles(r, "ok")
    \/ \E r \in 1..Len(runs) : \E k \in 1..Len(runs[r].rest) : readChunk(r, k)
    \/ \E r \in 1..Len(runs) : readDone(r)

SpecFrames == InitFrames /\ [][FramesNext]_vars

\* one stream per engine, read in any pieces and cancelled at any moment:
\* between two reads, or by the chunk handler in the middle of a read
InitCancel ==
    /\ ProviderInit({TRUE})
    /\ EngineInit
    /\ TypingIdle
    /\ responses \in {<<b>> : b \in Bodies({"chunkA", "DONE"}, MaxFrames)}

CancelNext ==
    \/ startStream(NextMessageId)
    \/ \E r \in 1..Len(runs) : fetchSettles(r, "ok")
    \/ \E r \in 1..Len(runs) : \E k \in 1..Len(runs[r].rest) : readChunk(r, k)
    \/ \E r \in 1..Len(runs) : \E k \in 1..Len(runs[r].rest) : readChunkHandlerCancels(r, k)
    \/ \E r \in 1..Len(runs) : readDone(r)
    \/ \E r \in 1..Len(runs) : abortObserved(r)
    \/ stopStream

SpecCancel == InitCancel /\ [][CancelNext]_vars

\* the animation frame hook on its own, fed texts that grow as chunks arrive
InitRaf ==
    /\ ProviderInit({TRUE})
    /\ EngineIdle
    /\ raf \in {[RafIdle EXCEPT !.prefersReducedMotion = b] : b \in BOOLEAN}
    /\ itv = ItvMounted(<<>>, FALSE)

RafNext ==
    \/ \E text \in Texts : Len(text) >= Len(raf.targetText) /\ setTargetText(text)
    \/ \E text \in Texts : appendText(text)
    \/ \E gap \in FrameGaps : animationFrame(gap)

SpecRaf == InitRaf /\ [][RafNext]_vars

\* the animation frame hook with any change of target and with reset()
RafResetNext ==
    \/ \E text \in Texts : setTargetText(text)
    \/ \E text \in Texts : appendText(text)
    \/ \E gap \in FrameGaps : animationFrame(gap)
    \/ reset

SpecRafReset == InitRaf /\ [][RafResetNext]_vars

\* the interval hook on its own
InitInterval ==
    /\ ProviderInit({TRUE})
    /\ EngineIdle
    /\ raf = RafIdle
    /\ itv \in {ItvMounted(text, b) : text \in Texts, b \in BOOLEAN}

IntervalNext ==
    \/ \E text \in Texts : itvSetText(text)
    \/ reducedMotionRender
    \/ handleChange
    \/ itvReset
    \/ intervalTick
    \/ skipToEnd

SpecInterval == InitInterval /\ [][IntervalNext]_vars

----------------------------------------------------------------------------
(* Claims about the ChatProvider, checked under Spec                       *)

\* C1 (P1, append-only content): every append of a chunk whose id matches the
\* tracked messageId and that carries no error leaves content equal to the
\* content before the call followed by the chunk's delta.
C1_AppendOnlyContent ==
    [][(last'.op = "append" /\ last'.matched /\ ~last'.error)
          => streamingState'.content = streamingState.content \o last'.delta]_vars

\* a matching, error-free chunk has been appended to content that was not empty
C1_Witness ==
    /\ last.op = "append" /\ last.matched /\ ~last.error
    /\ last.prevLen > 0
    /\ Len(streamingState.content) > last.prevLen

\* C2 (P2, stale rejection): while a session is tracked for message id A, an
\* append of a chunk with another id leaves the whole StreamingState unchanged.
C2_StaleChunkIgnored ==
    [][(last'.op = "append" /\ last'.tracked /\ ~last'.matched)
          => streamingState' = streamingState]_vars

\* C7 (scenario D): right after cancel() the streaming state and the thinking
\* state are at their initial values and a supplied onCancel callback has been
\* invoked exactly once by that call.
C7_CancelResets ==
    last.op = "cancel" =>
        /\ streamingState = InitialStreaming
        /\ thinking = InitialThinking
        /\ events.onCancel => onCancelCalls = last.calls + 1

\* cancel() ran mid-stream with partial content, visible steps and a callback
C7_Witness ==
    /\ last.op = "cancel" /\ last.midStream /\ last.hadSteps
    /\ events.onCancel

----------------------------------------------------------------------------
(* Claims about the stream ingestion engine, checked under SpecSSE         *)

\* run r's async function has returned without an abort and without a
\* transport error: the stream came to its natural end
EndedNaturally(r) ==
    /\ r <= Len(runs)
    /\ runs[r].pc = "ended" /\ ~runs[r].aborted /\ runs[r].fetched = "ok"

RECURSIVE ChunksOf(_, _)
\* the chunks of the chunk frames among frames, in frame order
ChunksOf(frames, m) ==
    IF frames = <<>> THEN <<>>
    ELSE (IF Head(frames) \in ChunkKinds THEN <<FrameChunk(Head(frames), m)>> ELSE <<>>)
         \o ChunksOf(Tail(frames), m)

RECURSIVE Concat(_)
\* the deltas of a chunk sequence, concatenated
Concat(chunks) ==
    IF chunks = <<>> THEN <<>> ELSE Head(chunks).delta \o Concat(Tail(chunks))

\* the chunks run r's consumer has been handed, in call order
DeliveredOf(r) ==
    LET mine == SelectSeq(delivered, LAMBDA d : d.run = r)
    IN [i \in 1..Len(mine) |-> mine[i].chunk]

\* prefixed data frames followed by one final data: [DONE]
DataThenDone(frames) ==
    /\ frames[Len(frames)] = "DONE"
    /\ \A i \in 1..(Len(frames) - 1) : frames[i] \in {"chunkA", "chunkB"}

\* C4 (scenario A, generalised): for a body of well-formed data frames for the
\* tracked message id followed by the [DONE] sentinel, once the stream has
\* ended content is the concatenation of all deltas in frame order, isStreaming
\* is false and the completion callback has been invoked exactly once.
C4_HelloScenario ==
    (EndedNaturally(1) /\ DataThenDone(responses[1].frames)) =>
        /\ streamingState.content = Concat(ChunksOf(responses[1].frames, runs[1].messageId))
        /\ ~streamingState.isStreaming
        /\ runs[1].completed = 1

\* C5: on every natural completion of a stream (reader end, [DONE] sentinel,
\* done=true chunk, or a combination) the completion callback has been invoked
\* exactly once and the engine ends with isStreaming false.
C5_CompletesExactlyOnce ==
    EndedNaturally(1) => runs[1].completed = 1 /\ ~sse.isStreaming

\* C9: every well-formed frame of a body is delivered to the chunk handler
\* exactly once and in arrival order, raw frames and an unterminated last frame
\* included (bodies without a sentinel, all of whose frames carry a chunk).
C9_EveryFrameDeliveredInOrder ==
    (EndedNaturally(1) /\ \A i \in 1..Len(responses[1].frames) :
                              responses[1].frames[i] \in {"chunkA", "chunkB", "rawC"}) =>
        DeliveredOf(1) = ChunksOf(responses[1].frames, runs[1].messageId)

\* C10: a frame whose bytes are split across two network reads is parsed once
\* as a whole and yields exactly one chunk (newline-terminated prefixed frames).
C10_SplitFrameParsedWhole ==
    (/\ EndedNaturally(1) /\ runs[1].partial /\ runs[1].rest = <<>>
     /\ responses[1].finalNL
     /\ \A i \in 1..Len(responses[1].frames) :
            responses[1].frames[i] \in {"chunkA", "chunkB"}) =>
        DeliveredOf(1) = ChunksOf(responses[1].frames, runs[1].messageId)

----------------------------------------------------------------------------
(* Claims about restart and cancellation, checked under SpecSession        *)

\* C6: at most one stream is active per engine. A startStream issued while an
\* earlier stream is still in flight aborts the earlier stream, and once a later
\* stream has been started no chunk of an earlier stream reaches the consumer.
C6_AtMostOneActiveStream ==
    [][/\ (last'.op = "startStream" /\ runs # <<>>
            /\ runs[Len(runs)].pc \in {"fetch", "read"}) => runs'[Len(runs)].aborted
       /\ Len(delivered') > Len(delivered)
             => delivered'[Len(delivered')].run = Len(runs')]_vars

\* C8 (P7, cancel idempotence): a cancel of the engine raises no error and
\* leaves isStreaming false and no cancellation handle, a cancel of the provider
\* leaves thinking and streaming state at their initial values, and a second
\* cancel in succession leaves the state the first one left.
C8_CancelIdempotent ==
    [][/\ last'.op = "stopStream" =>
            /\ ~sse'.isStreaming /\ sse'.abortControllerRef = 0 /\ sse'.error = sse.error
            /\ last.op = "stopStream" => sse' = sse /\ runs' = runs
       /\ last'.op = "cancel" =>
            /\ thinking' = InitialThinking /\ streamingState' = InitialStreaming
            /\ last.op = "cancel" => thinking' = thinking /\ streamingState' = streamingState]_vars

\* the engine has been cancelled twice in succession, the first time with a
\* stream in flight, right after the provider was cancelled twice in succession
C8_Witness ==
    /\ last.op = "stopStream" /\ last.again /\ last.afterCancels
    /\ last.was # 0 /\ runs[last.was].aborted

----------------------------------------------------------------------------
(* Claims about the typing hooks, checked under SpecRaf and SpecInterval   *)

\* C3 (P3, convergence): in the animation frame loop and in the interval loop,
\* once the reconciliation ticks a reveal of the target needs have passed since
\* the target last changed, displayText equals the target text, and it stays
\* equal for as long as the target does not change - also for a target that
\* was extended while the reveal was in progress.
C3_Convergence ==
    /\ raf.ticks >= RevealTicks(raf.targetText) => raf.displayText = raf.targetText
    /\ itv.ticks >= RevealTicks(itv.text) => itv.displayText = itv.text

----------------------------------------------------------------------------
(* Claims about malformed frames and sentinels, checked under SpecFrames   *)

\* one malformed frame, with well-formed prefixed chunk frames before and after
OneBadSurrounded(frames) ==
    /\ Len(frames) >= 3
    /\ frames[1] \in {"chunkA", "chunkB"} /\ frames[Len(frames)] \in {"chunkA", "chunkB"}
    /\ \E i \in 2..(Len(frames) - 1) :
          /\ frames[i] = "bad"
          /\ \A j \in (1..Len(frames)) \ {i} : frames[j] \in {"chunkA", "chunkB"}

\* C11 (P5, frame parsing tolerance): for a body with one malformed frame
\* surrounded by well-formed frames, once the stream has ended every well-formed
\* frame has been delivered, in order, nothing else has been delivered, the
\* error callback has not been invoked and the engine's error is null.
C11_MalformedFrameTolerated ==
    (EndedNaturally(1) /\ responses[1].finalNL /\ OneBadSurrounded(responses[1].frames)) =>
        /\ DeliveredOf(1) = ChunksOf(responses[1].frames, runs[1].messageId)
        /\ runs[1].errored = 0
        /\ sse.error = Null

RECURSIVE BeforeSentinel(_)
\* the frames that precede the first sentinel of a body
BeforeSentinel(frames) ==
    IF frames = <<>> \/ Head(frames) \in {"DONE", "rawDONE"} THEN <<>>
    ELSE <<Head(frames)>> \o BeforeSentinel(Tail(frames))

\* C12 (P6, sentinel termination): a stream whose body is only data: [DONE] and
\* a newline ends with completion invoked exactly once and no chunk delivered,
\* and at no time have more chunks been delivered than there are chunk frames
\* before the first sentinel, prefixed or raw, of the body.
C12_SentinelTerminates ==
    /\ (EndedNaturally(1) /\ responses[1] = [frames |-> <<"DONE">>, finalNL |-> TRUE]) =>
            runs[1].completed = 1 /\ DeliveredOf(1) = <<>>
    /\ runs # <<>> =>
            Len(DeliveredOf(1)) <= Len(ChunksOf(BeforeSentinel(responses[1].frames),
                                                runs[1].messageId))

----------------------------------------------------------------------------
(* Claims about aborts and transport failures, checked under SpecSession   *)

\* C13: cancellation is a clean stop. When the await of an aborted stream
\* rejects, the error callback is not invoked for that stream, then or before,
\* the engine's error is left as it was, the stream is over, and unless a later
\* stream has been started the engine has isStreaming false.
C13_AbortIsCleanStop ==
    [][last'.op = "abortObserved" =>
          /\ runs'[last'.run].errored = 0
          /\ runs'[last'.run].pc = "ended"
          /\ sse'.error = sse.error
          /\ last'.run = Len(runs) => ~sse'.isStreaming]_vars

\* an abort was observed by a stream that had already delivered a chunk
C13_Witness ==
    /\ last.op = "abortObserved"
    /\ runs[last.run].fetched = "ok" /\ DeliveredOf(last.run) # <<>>

\* C14: on a non-success status or a missing reader the stream is over with the
\* error callback invoked exactly once, no chunk delivered and no completion;
\* the failing step records the error, leaves isStreaming false and starts no
\* new request.
C14_TransportFailureSurfacedOnce ==
    [][/\ \A r \in 1..Len(runs') :
            runs'[r].fetched \in {"HTTP error", "Failed to get response reader"} =>
                /\ runs'[r].pc = "ended"
                /\ runs'[r].errored = 1 /\ runs'[r].completed = 0
                /\ \A i \in 1..Len(delivered') : delivered'[i].run # r
       /\ (last'.op = "fetch" /\ runs'[last'.run].fetched # "ok") =>
            /\ sse'.error = runs'[last'.run].fetched
            /\ ~sse'.isStreaming
            /\ Len(runs') = Len(runs) /\ delivered' = delivered]_vars

\* one stream of the session has failed on its status, the next on its reader
C14_Witness ==
    /\ last.op = "fetch" /\ Len(runs) = 2
    /\ runs[1].fetched = "HTTP error"
    /\ runs[2].fetched = "Failed to get response reader"


\* C15 (P4, reduced-motion bypass): while the reduced-motion preference is
\* true, no state shows isTyping true, and one reconciliation step after a
\* target was set displayText equals the target - in the animation frame hook,
\* and in the interval hook from its first mount on.
C15_ReducedMotionBypass ==
    /\ raf.prefersReducedMotion =>
            /\ ~raf.isTyping
            /\ raf.ticks >= 1 => raf.displayText = raf.targetText
    /\ itv.mediaMatches =>
            /\ ~itv.isTyping
            /\ (ItvSettled /\ last.op # "itvReset") => itv.displayText = itv.text

\* C16 (no rewind): a step that extends the target or leaves it as it is, and
\* is not a reset or a change of the motion preference, never shortens
\* displayText - in neither hook.
C16_NoRewindOnExtension ==
    [][/\ (last'.op # "reset" /\ StartsWith(raf'.targetText, raf.targetText)) =>
              Len(raf'.displayText) >= Len(raf.displayText)
       /\ (last'.op \notin {"itvReset", "handleChange"} /\ StartsWith(itv'.text, itv.text)) =>
              Len(itv'.displayText) >= Len(itv.displayText)]_vars

\* C17 (prefix): in every state displayText is a prefix of the current target
\* text, in both hooks, also after reset and after the target has changed.
C17_DisplayIsPrefixOfTarget ==
    /\ StartsWith(raf.targetText, raf.displayText)
    /\ StartsWith(itv.text, itv.displayText)

\* C18 (reset): after reset, and for as long as no new target is set,
\* displayText and the target are empty and isTyping is false - no redraw
\* requested before the reset shows anything; in the interval hook the
\* interval is cleared as well.
C18_ResetClearsAndCancels ==
    /\ raf.cleared => (raf.displayText = <<>> /\ raf.targetText = <<>> /\ ~raf.isTyping)
    /\ itv.cleared => (itv.displayText = <<>> /\ ~itv.isTyping /\ ~itv.intervalRef)

\* C19 (completion notification): onComplete is called at most once for one
\* text, and skipToEnd calls it only if it has not been called for that text.
C19_OnCompleteOncePerConvergence ==
    [][/\ itv'.completes <= 1
       /\ (last'.op = "skipToEnd" /\ itv.completes >= 1) => itv'.completes = itv.completes]_vars

----------------------------------------------------------------------------
(* Claims about the step operations, checked under SpecThinking            *)

\* C20 (E2E scenario B, generalised): completeStep(id) sets status done and
\* endedAt to the time of the call on the step with that id, leaves every other
\* step and the order of the steps as they were, and clears activeStep if and
\* only if it was id; and startStep(y) on the single completed step x, y # x,
\* yields x done with endedAt set followed by y active, with activeStep y.
C20_CompleteStepMarksDone ==
    [][/\ last'.op = "completeStep" =>
            /\ Len(thinking'.steps) = Len(thinking.steps)
            /\ \A i \in 1..Len(thinking.steps) :
                  IF thinking.steps[i].id = last'.id
                  THEN /\ thinking'.steps[i].status = "done"
                       /\ thinking'.steps[i].endedAt = now
                       /\ thinking'.steps[i].endedAt # NoTime
                       /\ thinking'.steps[i] =
                              [thinking.steps[i] EXCEPT !.status = "done", !.endedAt = now]
                  ELSE thinking'.steps[i] = thinking.steps[i]
            /\ (thinking'.activeStep = Undefined) <=>
                  (thinking.activeStep = last'.id \/ thinking.activeStep = Undefined)
            /\ thinking.activeStep # last'.id => thinking'.activeStep = thinking.activeStep
       /\ (/\ last.op = "completeStep" /\ last'.op = "startStep" /\ last'.id # last.id
           /\ Len(thinking.steps) = 1 /\ thinking.steps[1].id = last.id) =>
            /\ Len(thinking'.steps) = 2
            /\ thinking'.steps[1] = thinking.steps[1]
            /\ thinking'.steps[1].status = "done" /\ thinking'.steps[1].endedAt # NoTime
            /\ thinking'.steps[2].id = last'.id /\ thinking'.steps[2].status = "active"
            /\ thinking'.activeStep = last'.id]_vars

\* startStep(x), completeStep(x), startStep(y) have run, x # y
C20_Witness ==
    /\ last.op = "startStep"
    /\ Len(thinking.steps) = 2
    /\ thinking.steps[1].id # thinking.steps[2].id
    /\ thinking.steps[1].status = "done" /\ thinking.steps[1].endedAt # NoTime
    /\ thinking.steps[2].status = "active"
    /\ thinking.activeStep = thinking.steps[2].id

\* C21 (startStep is an upsert): startStep(id) appends a step at the end when
\* no step has the id and otherwise replaces the entry where it stands; either
\* way that step is active with startedAt the time of the call and no endedAt,
\* activeStep is id, no id is listed twice and every other step is unchanged.
C21_StartStepUpserts ==
    [][last'.op = "startStep" =>
         LET existingIndex == FindIndex(thinking.steps, last'.id)
             at == IF existingIndex = 0 THEN Len(thinking.steps) + 1 ELSE existingIndex
         IN /\ Len(thinking'.steps) = IF existingIndex = 0 THEN Len(thinking.steps) + 1
                                      ELSE Len(thinking.steps)
            /\ thinking'.steps[at].id = last'.id
            /\ thinking'.steps[at].status = "active"
            /\ thinking'.steps[at].startedAt = now
            /\ thinking'.steps[at].endedAt = NoTime
            /\ thinking'.activeStep = last'.id
            /\ \A i \in 1..Len(thinking.steps) : i # at => thinking'.steps[i] = thinking.steps[i]
            /\ \A i, j \in 1..Len(thinking'.steps) :
                  thinking'.steps[i].id = thinking'.steps[j].id => i = j]_vars

\* a step restarted in place, ahead of another step that is still active
C21_Witness ==
    /\ last.op = "startStep"
    /\ Len(thinking.steps) = 2
    /\ thinking.steps[1].id = last.id
    /\ thinking.steps[1].startedAt > thinking.steps[2].startedAt
    /\ thinking.steps[2].status = "active"

\* C22 (forward-only status): a step that is done or error keeps its status in
\* every step other than a startStep for its id, and completeStep and failStep
\* add no step to the list.
C22_StatusForwardOnly ==
    [][/\ \A i \in 1..Len(thinking.steps) :
            (/\ thinking.steps[i].status \in {"done", "error"}
             /\ i <= Len(thinking'.steps)
             /\ ~(last'.op = "startStep" /\ last'.id = thinking.steps[i].id)) =>
                thinking'.steps[i].status = thinking.steps[i].status
       /\ last'.op \in {"completeStep", "failStep"} =>
            Len(thinking'.steps) = Len(thinking.steps)]_vars

----------------------------------------------------------------------------
(* Claims about the ChatProvider's visibility and errors, checked under Spec *)

\* C23 (E2E scenario C): setVisible(true) makes the session visible at once
\* and leaves no hide pending; a hide becomes pending only through
\* setVisible(false); and while no hide is pending, visible turns false through
\* nothing but cancel - so setVisible(false) followed by setVisible(true) keeps
\* the session visible until the next setVisible(false) has waited its delay.
C23_ReshowCancelsPendingHide ==
    [][/\ (last'.op = "setVisible" /\ last'.visible) =>
              (thinking'.visible /\ hideTimeoutRef' # "pending")
       /\ (hideTimeoutRef # "pending" /\ hideTimeoutRef' = "pending") =>
              (last'.op = "setVisible" /\ ~last'.visible)
       /\ (last'.op = "setVisible" /\ ~last'.visible) => thinking'.visible = thinking.visible
       /\ (thinking.visible /\ ~thinking'.visible) =>
              \/ last'.op = "cancel"
              \/ last'.op = "hideTimeout" /\ hideTimeoutRef = "pending"]_vars

\* setVisible(true) has just cleared the hide that setVisible(false) had pending
C23_Witness ==
    /\ last.op = "setVisible" /\ last.visible /\ last.cleared
    /\ thinking.visible
    /\ hideTimeoutRef = Null

\* C24 (start happens-before append): an append is honored only while the
\* chunk's id is the tracked messageId; an append that arrives when no id is
\* tracked (before any start, after cancel or reset) or when another id is
\* tracked leaves content, isStreaming and error as they were.
C24_AppendOnlyForTrackedId ==
    [][(last'.op = "append" /\ (~last'.tracked \/ ~last'.matched)) =>
           /\ streamingState'.content = streamingState.content
           /\ streamingState'.isStreaming = streamingState.isStreaming
           /\ streamingState'.error = streamingState.error]_vars

\* C25 (no free-running loop): an animation frame that ends with displayText
\* equal to the target leaves isTyping false and no callback requested; and an
\* interval tick that finds displayText equal to the text clears the interval
\* and leaves isTyping false.
C25_LoopStopsAtEquality ==
    [][/\ (last'.op = "animationFrame" /\ raf'.displayText = raf'.targetText) =>
              (~raf'.isTyping /\ raf'.pending = <<>>)
       /\ (last'.op = "intervalTick" /\ itv.displayText = itv.text) =>
              (~itv'.isTyping /\ ~itv'.intervalRef)]_vars

\* C26 (append keeps a recorded error): an append of a chunk with the tracked
\* id sets isStreaming to the negation of chunk.done, and when the chunk carries
\* no error it leaves the recorded error as it was.
C26_AppendKeepsRecordedError ==
    [][(last'.op = "append" /\ last'.matched) =>
           /\ streamingState'.isStreaming = ~last'.done
           /\ ~last'.error => streamingState'.error = streamingState.error]_vars

\* C27 (headline status): while the bar is visible, the status text of every
\* ThinkingBar variant is the label of the tracked activeStep - the step started
\* last - and the fallback 'Thinking...' when no step is tracked.
C27_HeadlineIsTrackedStep ==
    thinking.visible =>
        LET expected == IF thinking.activeStep = Undefined THEN Fallback
                        ELSE thinking.steps[FindIndex(thinking.steps, thinking.activeStep)].label
        IN /\ StatusText(thinking) = expected
           /\ CurrentStatus(thinking, Undefined) = expected

\* C28 (the newest stream stays cancellable): in the engine whose startStream
\* first calls stopStream, whenever the stream of the most recent startStream is
\* in flight and has not been aborted, isStreaming is true and
\* abortControllerRef holds that stream's controller.
C28_NewestStreamCancellable ==
    (/\ variant = "buffered"
     /\ runs # <<>>
     /\ runs[Len(runs)].pc \in {"fetch", "read"}
     /\ ~runs[Len(runs)].aborted) =>
        (sse.isStreaming /\ sse.abortControllerRef = Len(runs))

----------------------------------------------------------------------------
(* Claims about callbacks after a cancel, checked under SpecCancel         *)

\* C29 (nothing after cancel): once cancel / stopStream has returned, the
\* engine invokes no onChunk, onComplete or onError for the cancelled stream -
\* neither in a later continuation nor for the lines of the read during which
\* the chunk handler called cancel.
C29_NoCallbackAfterCancel == \A r \in 1..Len(runs) : runs[r].late = 0

----------------------------------------------------------------------------
(* Claims about the animation frame requests, checked under SpecRaf        *)

\* C30 (one reveal loop): at most one animation frame callback is pending, no
\* second copy of it has been requested, and animationRef holds the handle of
\* the pending callback.
C30_SinglePendingRedraw ==
    /\ Len(raf.pending) <= 1
    /\ ~raf.dups
    /\ raf.pending # <<>> => (raf.handle = "last" /\ raf.animationRef = raf.pending[1])

====
